---- MODULE Spec2Model ----
(***************************************************************************)
(* Model of src/code.py: MainWindow, the playback-synchronised analysis    *)
(* updater (Load / Play / Pause / Stop buttons and the QTimer callback     *)
(* update_plot), together with the two collaborators whose state the       *)
(* handlers read and write: pygame.mixer (audio output) and the matplotlib *)
(* figure/canvas.                                                          *)
(*                                                                         *)
(* Time is counted in units of half a time step: TimeStep == 2 stands for  *)
(* self.time_step = 0.1 s, so one unit is 50 ms.  current_time is kept as  *)
(* an exact number of units (the rounding of repeated float additions of   *)
(* 0.1 is not modelled).                                                   *)
(*                                                                         *)
(* The QTimer and the audio output run on the same wall clock (Elapse): a  *)
(* timeout is delivered when a full interval has passed since the timer    *)
(* was started or last fired, or later, never earlier.                     *)
(*                                                                         *)
(* pygame.mixer.music as the handlers use it: load() raises on a file it   *)
(* cannot read and then keeps the music it had; a successful load() stops  *)
(* and replaces that music; play() raises when no music is loaded and      *)
(* otherwise plays from the start; pause() acts on playing music only and  *)
(* unpause() on paused music only; get_busy() is true while music plays.   *)
(***************************************************************************)
EXTENDS Integers, Sequences, FiniteSets, TLC

\* self.time_step (0.1 s), in units of 50 ms.
TimeStep == 2

\* Longest audio file offered by the file dialog, in units.
MaxDur == 5

\* Number of user operations (button presses) in a session of SpecLive.
MaxUserOps == 4

\* Most frames in an analysed track (SpecPanes).
MaxFrames == 3

\* Largest sample value of a track (SpecPanes).
MaxValue == 2

Min(a, b) == IF a < b THEN a ELSE b
Max(a, b) == IF a > b THEN a ELSE b

(***************************************************************************)
(* Files the dialog can return.  A file is decodable by the acoustic       *)
(* engine (parselmouth.Sound) or not, loadable by the audio engine         *)
(* (pygame.mixer.music.load) or not, and has a duration.                   *)
(***************************************************************************)
None == [kind |-> "none", dur |-> 0]

GoodFiles == [kind : {"good"}, dur : 1..MaxDur]

\* parselmouth.Sound raises on it (and so does pygame).
Undecodable == [kind |-> "undecodable", dur |-> 0]

\* parselmouth decodes it, pygame.mixer.music.load raises on it.
NoMixer == [kind |-> "nomixer", dur |-> 1]

Files == GoodFiles \cup {Undecodable, NoMixer}

\* QFileDialog.getOpenFileName: a path, or "" (here None) when cancelled.
getOpenFileName == Files \cup {None}

\* parselmouth.Sound(path) returns a Sound (TRUE) or raises (FALSE).
SoundOk(f) == f.kind \in {"good", "nomixer"}

\* pygame.mixer.music.load(path) succeeds (TRUE) or raises (FALSE).
MusicLoadOk(f) == f.kind = "good"

\* Sound.get_total_duration() of the Sound decoded from f.
get_total_duration(f) == f.dur

VARIABLES
    audio_path,     \* self.audio_path: None or the selected file
    snd,            \* self.snd: None or the file the Sound was decoded from
    current_time,   \* self.current_time, in units
    timer_active,   \* self.timer.isActive()
    timer_rem,      \* units until the timer's next timeout
    is_paused,      \* self.is_paused
    figure,         \* self.figure: the subplots it holds, <<>> when cleared
    canvas,         \* what self.canvas.draw() last put on screen
    mixer_init,     \* pygame.mixer.get_init()
    music,          \* the file pygame.mixer.music has loaded, or None
    music_state,    \* "stopped", "playing" or "paused"
    music_pos,      \* playback position of pygame.mixer.music, in units
    printed,        \* what the last operation printed ("" for nothing)
    lastOp,         \* the last step taken
    outcome,        \* how the last step ended
    music_call,     \* the playback call the last step made on pygame.mixer.music
    chunk,          \* the window <<from_time, to_time>> of the last extract_part
    nticks,         \* successful ticks since current_time was last set to 0.0
    pre,            \* the program state before the last step
    uhist,          \* the last two user operations, most recent first
    ticked,         \* ticks since the last user operation: "none", "first", "later"
    nops,           \* user operations so far (counted in SpecLive only)
    track,          \* the values of the track handed to a pane's plot function
    pane            \* the axes after the plot function ran

prog == <<audio_path, snd, current_time, timer_active, timer_rem, is_paused,
          figure, canvas, mixer_init, music, music_state, music_pos>>

ghost == <<printed, lastOp, outcome, music_call, chunk, nticks, pre, uhist, ticked>>

panes == <<track, pane>>

vars == <<prog, ghost, nops, panes>>

\* The program state as one record.
Snap ==
    [audio_path |-> audio_path, snd |-> snd, current_time |-> current_time,
     timer_active |-> timer_active, timer_rem |-> timer_rem,
     is_paused |-> is_paused, figure |-> figure, canvas |-> canvas,
     mixer_init |-> mixer_init, music |-> music, music_state |-> music_state,
     music_pos |-> music_pos]

\* What is remembered of a user operation: the state it was called in and
\* how it ended.
Entry(op) == [op |-> op, current_time |-> current_time,
              timer_active |-> timer_active, is_paused |-> is_paused,
              outcome |-> outcome']

\* Bookkeeping of a step named op: remember the state it started from.
Record(op) ==
    /\ lastOp' = op
    /\ pre' = Snap

\* Bookkeeping of a user operation.
UserRecord(op) ==
    /\ Record(op)
    /\ uhist' = <<Entry(op)>> \o SubSeq(uhist, 1, Min(Len(uhist), 1))
    /\ ticked' = "none"

\* An axes nothing was plotted on.
NoPane == [title |-> "", xs |-> <<>>, ys |-> <<>>, legend |-> FALSE]

\* MainWindow.__init__
InitWindow ==
    /\ audio_path = None
    /\ snd = None
    /\ current_time = 0
    /\ timer_active = FALSE
    /\ timer_rem = 0
    /\ is_paused = FALSE
    /\ figure = <<>>
    /\ canvas = <<>>
    /\ mixer_init = FALSE
    /\ music = None
    /\ music_state = "stopped"
    /\ music_pos = 0
    /\ printed = ""
    /\ lastOp = "Init"
    /\ outcome = "ok"
    /\ music_call = "none"
    /\ chunk = <<0, 0>>
    /\ nticks = 0
    /\ pre = [audio_path |-> None, snd |-> None, current_time |-> 0,
              timer_active |-> FALSE, timer_rem |-> 0, is_paused |-> FALSE,
              figure |-> <<>>, canvas |-> <<>>, mixer_init |-> FALSE,
              music |-> None, music_state |-> "stopped", music_pos |-> 0]
    /\ uhist = <<>>
    /\ ticked = "none"
    /\ nops = 0

Init == InitWindow /\ track = <<>> /\ pane = NoPane

(***************************************************************************)
(* The handlers, as functions of the state.  s is the state a handler      *)
(* starts from, with the report fields blank (Cur); the value is the state *)
(* it returns in.                                                          *)
(***************************************************************************)
Cur ==
    [audio_path |-> audio_path, snd |-> snd, current_time |-> current_time,
     timer_active |-> timer_active, timer_rem |-> timer_rem,
     is_paused |-> is_paused, figure |-> figure, canvas |-> canvas,
     mixer_init |-> mixer_init, music |-> music, music_state |-> music_state,
     music_pos |-> music_pos,
     printed |-> "", outcome |-> "ok", music_call |-> "none",
     chunk |-> chunk, nticks |-> nticks]

\* pygame.mixer.music.load(f) on a file the mixer accepts: the music that
\* was playing is stopped and replaced.
music_load(s, f) ==
    [s EXCEPT !.music = f, !.music_state = "stopped", !.music_pos = 0]

\* self.timer.start(int(self.time_step * 1000))
timer_start(s) == [s EXCEPT !.timer_active = TRUE, !.timer_rem = TimeStep]

\* self.timer.stop()
timer_stop(s) == [s EXCEPT !.timer_active = FALSE, !.timer_rem = 0]

\* pygame.mixer.music.get_busy()
get_busy(s) == s.music_state = "playing"

\* load_audio_file, the body of "if file_path:".
load_selected(s, file_path) ==
    LET s1 == [s EXCEPT !.audio_path = file_path] IN
    IF ~SoundOk(file_path)
    THEN [s1 EXCEPT !.printed = "Error loading audio file", !.outcome = "error"]
    ELSE LET s2 == [s1 EXCEPT !.snd = file_path] IN
         IF s2.mixer_init /\ ~MusicLoadOk(file_path)
         THEN [s2 EXCEPT !.printed = "Error loading audio file", !.outcome = "error"]
         ELSE LET s3 == IF s2.mixer_init
                        THEN [music_load(s2, file_path) EXCEPT !.music_call = "load"]
                        ELSE s2
              IN  [s3 EXCEPT !.printed = "Loaded audio file",
                             !.current_time = 0, !.nticks = 0]

\* load_audio_file with "self.current_time = 0.0" moved before "if file_path:".
load_resets_before_test(s, file_path) ==
    IF file_path = None
    THEN [s EXCEPT !.outcome = "cancelled", !.current_time = 0, !.nticks = 0]
    ELSE load_selected(s, file_path)

\* MainWindow.load_audio_file, the dialog returning file_path.
load_audio_file(s, file_path) ==
    IF file_path = None
    THEN [s EXCEPT !.outcome = "cancelled"]
    ELSE load_selected(s, file_path)

\* The session test without "or not self.snd".
no_session_path_only(s) == s.audio_path = None

\* "not self.audio_path or not self.snd"
no_session(s) == s.audio_path = None \/ s.snd = None

\* The resume branch with the "self.current_time = 0.0" of the other branch.
play_resume_resets_time(s) ==
    LET s1 == [s EXCEPT !.music_call = "unpause",
                        !.music_state = IF @ = "paused" THEN "playing" ELSE @]
    IN  [timer_start(s1) EXCEPT !.is_paused = FALSE, !.current_time = 0, !.nticks = 0]

\* play_audio_and_plot, the branch taken when self.is_paused: unpause the
\* music, start the timer, clear the flag.
play_resume(s) ==
    LET s1 == [s EXCEPT !.music_call = "unpause",
                        !.music_state = IF @ = "paused" THEN "playing" ELSE @]
    IN  [timer_start(s1) EXCEPT !.is_paused = FALSE]

\* The start branch without "self.current_time = 0.0".
play_start_keeps_time(s) ==
    IF s.music = None
    THEN [s EXCEPT !.printed = "Error during playback", !.outcome = "error"]
    ELSE timer_start([s EXCEPT !.music_call = "play",
                               !.music_state = "playing", !.music_pos = 0])

\* play_audio_and_plot, the branch taken otherwise: play the music from its
\* start (pygame raises when no music is loaded), reset the time, start the
\* timer.
play_start(s) ==
    IF s.music = None
    THEN [s EXCEPT !.printed = "Error during playback", !.outcome = "error"]
    ELSE LET s1 == [s EXCEPT !.music_call = "play",
                             !.music_state = "playing", !.music_pos = 0]
         IN  timer_start([s1 EXCEPT !.current_time = 0, !.nticks = 0])

\* MainWindow.play_audio_and_plot
play_audio_and_plot(s) ==
    IF no_session(s)
    THEN [s EXCEPT !.printed = "No audio file loaded", !.outcome = "no_audio"]
    ELSE LET s1 == [s EXCEPT !.mixer_init = TRUE] IN
         IF ~s.mixer_init /\ ~MusicLoadOk(s.audio_path)
         THEN [s1 EXCEPT !.printed = "Error during playback", !.outcome = "error"]
         ELSE LET s2 == IF ~s.mixer_init THEN music_load(s1, s.audio_path) ELSE s1
              IN  IF s2.is_paused THEN play_resume(s2) ELSE play_start(s2)

\* pause_audio_and_plot with the flag toggled instead of set.
pause_toggles(s) ==
    LET s1 == IF s.mixer_init
              THEN [s EXCEPT !.music_call = "pause",
                             !.music_state = IF @ = "playing" THEN "paused" ELSE @]
              ELSE s
    IN  [timer_stop(s1) EXCEPT !.is_paused = ~@]

\* pause_audio_and_plot without "self.timer.stop()".
pause_keeps_timer(s) ==
    LET s1 == IF s.mixer_init
              THEN [s EXCEPT !.music_call = "pause",
                             !.music_state = IF @ = "playing" THEN "paused" ELSE @]
              ELSE s
    IN  [s1 EXCEPT !.is_paused = TRUE]

\* MainWindow.pause_audio_and_plot
pause_audio_and_plot(s) ==
    LET s1 == IF s.mixer_init
              THEN [s EXCEPT !.music_call = "pause",
                             !.music_state = IF @ = "playing" THEN "paused" ELSE @]
              ELSE s
    IN  [timer_stop(s1) EXCEPT !.is_paused = TRUE]

\* stop_audio_and_plot without "self.current_time = 0.0".
stop_keeps_time(s) ==
    LET s1 == IF s.mixer_init
              THEN [s EXCEPT !.music_call = "stop",
                             !.music_state = "stopped", !.music_pos = 0]
              ELSE s
    IN  [timer_stop(s1) EXCEPT !.is_paused = FALSE,
                               !.figure = <<>>, !.canvas = <<>>]

\* MainWindow.stop_audio_and_plot
stop_audio_and_plot(s) ==
    LET s1 == IF s.mixer_init
              THEN [s EXCEPT !.music_call = "stop",
                             !.music_state = "stopped", !.music_pos = 0]
              ELSE s
    IN  [timer_stop(s1) EXCEPT !.is_paused = FALSE, !.current_time = 0, !.nticks = 0,
                               !.figure = <<>>, !.canvas = <<>>]

\* Sound.extract_part(from_time, to_time) of the Sound decoded from f: the
\* duration of the part, the window being clipped to the signal.
extract_part(f, from_time, to_time) ==
    Max(0, Min(to_time, get_total_duration(f)) - Max(from_time, 0))

\* The faults a tick can meet after its window was extracted: none, an error
\* raised by the analysis (to_pitch, to_intensity, to_spectrogram), or one
\* raised while the first or the second pane is drawn.
Faults == {"none", "analysis", "spectrogram", "pitch"}

\* The end-of-audio branch without "self.timer.stop()".
end_of_audio_keeps_timer(s) == [s EXCEPT !.outcome = "not_busy"]

\* The end-of-audio branch doing what stop_audio_and_plot does.
end_of_audio_resets(s) ==
    [timer_stop(s) EXCEPT !.outcome = "not_busy", !.current_time = 0, !.nticks = 0,
                          !.figure = <<>>, !.canvas = <<>>]

\* update_plot, the branch taken when the music is not busy: stop the timer
\* and return.
end_of_audio(s) == [timer_stop(s) EXCEPT !.outcome = "not_busy"]

\* The empty-window branch with the time advanced as after a drawn window.
empty_window_advances(s) ==
    [timer_stop(s) EXCEPT !.printed = "Audio chunk is empty or invalid",
                          !.outcome = "empty",
                          !.current_time = @ + TimeStep]

\* update_plot, the branch taken when the extracted chunk has no duration:
\* print, stop the timer and return.
empty_window(s) ==
    [timer_stop(s) EXCEPT !.printed = "Audio chunk is empty or invalid",
                          !.outcome = "empty"]

\* The except clause with the timer stopped.
tick_fault_stops_timer(s, fault) ==
    LET s1 == [s EXCEPT !.printed = "Error during real-time plotting",
                        !.outcome = "fault"]
    IN  timer_stop(IF fault = "analysis" THEN s1
                   ELSE IF fault = "spectrogram" THEN [s1 EXCEPT !.figure = <<311>>]
                   ELSE [s1 EXCEPT !.figure = <<311, 312>>])

\* update_plot, a tick in which the analysis or the drawing raises: the
\* figure holds the subplots added so far, the canvas was not redrawn, the
\* except clause prints.
tick_fault(s, fault) ==
    LET s1 == [s EXCEPT !.printed = "Error during real-time plotting",
                        !.outcome = "fault"]
    IN  IF fault = "analysis" THEN s1
        ELSE IF fault = "spectrogram" THEN [s1 EXCEPT !.figure = <<311>>]
        ELSE [s1 EXCEPT !.figure = <<311, 312>>]

\* The drawn-window branch with "self.current_time = end_time + self.time_step".
tick_drawn_skips(s) ==
    [s EXCEPT !.figure = <<311, 312, 313>>,
              !.canvas = <<311, 312, 313>>,
              !.current_time = @ + 2 * TimeStep,
              !.nticks = @ + 1,
              !.outcome = "advanced"]

\* update_plot, a tick that analyses and draws its window: three panes, the
\* canvas redrawn, "self.current_time += self.time_step".
tick_drawn(s) ==
    [s EXCEPT !.figure = <<311, 312, 313>>,
              !.canvas = <<311, 312, 313>>,
              !.current_time = @ + TimeStep,
              !.nticks = @ + 1,
              !.outcome = "advanced"]

\* MainWindow.update_plot, meeting fault.
update_plot(s, fault) ==
    IF ~s.mixer_init \/ (get_busy(s) /\ s.snd = None)
    THEN [s EXCEPT !.printed = "Error during real-time plotting", !.outcome = "error"]
    ELSE IF ~get_busy(s)
    THEN end_of_audio(s)
    ELSE LET end_time == s.current_time + TimeStep
             s1 == [s EXCEPT !.chunk = <<s.current_time, end_time>>]
         IN  IF extract_part(s.snd, s.current_time, end_time) <= 0
             THEN empty_window(s1)
             ELSE IF fault # "none"
             THEN tick_fault(s1, fault)
             ELSE tick_drawn(s1)

\* The repeating QTimer after its callback returned in state s: still running,
\* it is armed for the next interval.
timer_active_after(s) == IF s.timer_active THEN [s EXCEPT !.timer_rem = TimeStep] ELSE s

\* One unit of wall-clock time passes: playing music moves on and ends at the
\* end of its file, a running timer comes closer to its timeout.
elapse(s) ==
    LET s1 == IF s.music_state = "playing"
              THEN IF s.music_pos + 1 >= get_total_duration(s.music)
                   THEN [s EXCEPT !.music_state = "stopped", !.music_pos = 0]
                   ELSE [s EXCEPT !.music_pos = @ + 1]
              ELSE s
    IN  [s1 EXCEPT !.timer_rem = IF s.timer_active THEN Max(0, @ - 1) ELSE @]

(***************************************************************************)
(* The steps.                                                              *)
(***************************************************************************)
Apply(r) ==
    /\ audio_path' = r.audio_path
    /\ snd' = r.snd
    /\ current_time' = r.current_time
    /\ timer_active' = r.timer_active
    /\ timer_rem' = r.timer_rem
    /\ is_paused' = r.is_paused
    /\ figure' = r.figure
    /\ canvas' = r.canvas
    /\ mixer_init' = r.mixer_init
    /\ music' = r.music
    /\ music_state' = r.music_state
    /\ music_pos' = r.music_pos
    /\ printed' = r.printed
    /\ outcome' = r.outcome
    /\ music_call' = r.music_call
    /\ chunk' = r.chunk
    /\ nticks' = r.nticks

Load == \E file_path \in getOpenFileName :
            Apply(load_audio_file(Cur, file_path)) /\ UserRecord("Load")

Play == Apply(play_audio_and_plot(Cur)) /\ UserRecord("Play")

Pause == Apply(pause_audio_and_plot(Cur)) /\ UserRecord("Pause")

Stop == Apply(stop_audio_and_plot(Cur)) /\ UserRecord("Stop")

\* The QTimer's timeout: it fires when the interval has elapsed.
Tick ==
    /\ timer_active
    /\ timer_rem = 0
    /\ \E fault \in Faults : Apply(timer_active_after(update_plot(Cur, fault)))
    /\ Record("Tick")
    /\ ticked' = IF ticked = "none" THEN "first" ELSE "later"
    /\ UNCHANGED uhist

Elapse ==
    /\ music_state = "playing" \/ (timer_active /\ timer_rem > 0)
    /\ Apply(elapse(Cur))
    /\ Record("Elapse")
    /\ UNCHANGED <<uhist, ticked>>

\* A step that is not counted, and a user operation that is.
Free == UNCHANGED <<nops, panes>>

Counted == nops < MaxUserOps /\ nops' = nops + 1 /\ UNCHANGED panes

Next ==
    \/ Load /\ Free
    \/ Play /\ Free
    \/ Pause /\ Free
    \/ Stop /\ Free
    \/ Tick /\ Free
    \/ Elapse /\ Free

Spec == Init /\ [][Next]_vars

(***************************************************************************)
(* A session in which the user presses at most MaxUserOps buttons and then *)
(* leaves the program alone.  The Qt event loop delivers a due timeout and *)
(* wall-clock time keeps passing.                                          *)
(***************************************************************************)
NextLive ==
    \/ Load /\ Counted
    \/ Play /\ Counted
    \/ Pause /\ Counted
    \/ Stop /\ Counted
    \/ Tick /\ Free
    \/ Elapse /\ Free

SpecLive == Init /\ [][NextLive]_vars /\ WF_vars(Tick /\ Free) /\ WF_vars(Elapse /\ Free)

(***************************************************************************)
(* The pitch and the intensity pane.  A track is the sequence of its       *)
(* frames' values; frame i is at time i.  A value is NaN, or a number from *)
(* 0 to MaxValue.  In pitch.selected_array['frequency'] an unvoiced frame  *)
(* has the frequency 0 and no frame is NaN.  update_plot always hands      *)
(* plot_intensity the Intensity it computed, never None.                   *)
(***************************************************************************)
NaN == -1

Unvoiced == 0

Samples == {NaN} \cup (0..MaxValue)

Tracks == UNION {[1..n -> Samples] : n \in 0..MaxFrames}

\* intensity.xs(), pitch.xs(): the times of the frames.
xs(values) == [i \in 1..Len(values) |-> i]

\* ~np.isnan(values)
not_isnan(values) == [i \in 1..Len(values) |-> values[i] # NaN]

\* a[mask]: numpy's selection by a boolean mask.
RECURSIVE masked(_, _)
masked(a, mask) ==
    IF a = <<>> THEN <<>>
    ELSE (IF Head(mask) THEN <<Head(a)>> ELSE <<>>) \o masked(Tail(a), Tail(mask))

\* plot_intensity with the times left unfiltered.
plot_intensity_all_times(values) ==
    LET valid_indices == not_isnan(values)
        times == xs(values)
        vals == masked(values, valid_indices)
    IN  IF Len(times) > 0 /\ Len(vals) > 0
        THEN [title |-> "Intensity Analysis", xs |-> times, ys |-> vals, legend |-> TRUE]
        ELSE [title |-> "Intensity Analysis (No valid data)", xs |-> <<>>, ys |-> <<>>,
              legend |-> FALSE]

\* MainWindow.plot_intensity, intensity.values.flatten() being values.
plot_intensity(values) ==
    LET valid_indices == not_isnan(values)
        times == masked(xs(values), valid_indices)
        vals == masked(values, valid_indices)
    IN  IF Len(times) > 0 /\ Len(vals) > 0
        THEN [title |-> "Intensity Analysis", xs |-> times, ys |-> vals, legend |-> TRUE]
        ELSE [title |-> "Intensity Analysis (No valid data)", xs |-> <<>>, ys |-> <<>>,
              legend |-> FALSE]

\* MainWindow.plot_pitch, pitch.selected_array['frequency'] being frequency.
plot_pitch(frequency) ==
    [title |-> "Pitch Analysis", xs |-> xs(frequency), ys |-> frequency, legend |-> TRUE]

\* Any track an analysis can return.
InitPanes == InitWindow /\ track \in Tracks /\ pane = NoPane

PlotIntensity ==
    /\ pane' = plot_intensity(track)
    /\ lastOp' = "plot_intensity"
    /\ UNCHANGED <<prog, printed, outcome, music_call, chunk, nticks, pre, uhist,
                   ticked, nops, track>>

PlotPitch ==
    /\ \A i \in 1..Len(track) : track[i] # NaN
    /\ pane' = plot_pitch(track)
    /\ lastOp' = "plot_pitch"
    /\ UNCHANGED <<prog, printed, outcome, music_call, chunk, nticks, pre, uhist,
                   ticked, nops, track>>

NextPanes == PlotIntensity \/ PlotPitch

SpecPanes == InitPanes /\ [][NextPanes]_vars

(***************************************************************************)
(* The states of the playback state machine, read off the fields.          *)
(***************************************************************************)
Playing(s) == s.timer_active /\ ~s.is_paused

Paused(s) == s.is_paused

Stopped(s) == ~s.timer_active /\ ~s.is_paused

HasSession(s) == s.audio_path # None /\ s.snd # None

\* C1: after Stop(), whatever the state it was called in, current_time is 0,
\* the timer is halted, the paused flag is cleared and the figure and the
\* canvas are empty.
C1_StopResets ==
    lastOp = "Stop" =>
        /\ current_time = 0
        /\ ~timer_active
        /\ ~is_paused
        /\ figure = <<>>
        /\ canvas = <<>>

\* Stop() pressed while playing, after a tick advanced the time and drew.
C1_Witness ==
    /\ lastOp = "Stop"
    /\ Playing(pre)
    /\ pre.current_time > 0
    /\ pre.canvas # <<>>
    /\ current_time = 0

\* C2: a Load() that fails (the acoustic engine or the audio engine raises)
\* leaves current_time, the Session (signal and file path) and the playback
\* state as they were, and reports the load error.
C2_FailedLoadChangesNothing ==
    (lastOp = "Load" /\ outcome = "error") =>
        /\ printed = "Error loading audio file"
        /\ current_time = pre.current_time
        /\ snd = pre.snd
        /\ audio_path = pre.audio_path
        /\ timer_active = pre.timer_active
        /\ is_paused = pre.is_paused
        /\ music_state = pre.music_state

\* C3: current_time never exceeds the duration of the loaded signal.
C3_TimeWithinDuration ==
    snd # None => current_time <= get_total_duration(snd)

\* C4: Play() with no Session loaded starts neither the timer nor the audio
\* output, leaves current_time and the paused flag as they were, and reports
\* that no audio file is loaded.
C4_PlayWithoutSession ==
    (lastOp = "Play" /\ ~HasSession(pre)) =>
        /\ printed = "No audio file loaded"
        /\ ~timer_active
        /\ music_call = "none"
        /\ music_state = pre.music_state
        /\ mixer_init = pre.mixer_init
        /\ current_time = pre.current_time
        /\ is_paused = pre.is_paused

\* Play() pressed after a Load() that failed in the acoustic engine: a path
\* is set, no signal is.
C4_Witness ==
    /\ lastOp = "Play"
    /\ pre.audio_path # None
    /\ pre.snd = None
    /\ printed = "No audio file loaded"

\* Play() has started the music from its beginning.
StartedFromZero ==
    /\ music_call = "play"
    /\ music_state = "playing"
    /\ music_pos = 0
    /\ current_time = 0
    /\ timer_active
    /\ timer_rem = TimeStep

\* The last two user operations were Pause(), called while Playing, and then
\* Play().
PauseThenPlay ==
    /\ Len(uhist) = 2
    /\ uhist[1].op = "Play"
    /\ uhist[2].op = "Pause"
    /\ Playing(uhist[2])

\* C5: Pause() while Playing at current_time = t, directly followed by
\* Play(), unpauses the music (it does not play it from the start), starts
\* the timer again and keeps current_time = t; the first tick after it that
\* extracts a window extracts [t, t + time_step).
C5_PauseThenPlayResumes ==
    /\ (lastOp = "Play" /\ PauseThenPlay) =>
          /\ music_call = "unpause"
          /\ music_pos = pre.music_pos
          /\ timer_active
          /\ timer_rem = TimeStep
          /\ ~is_paused
          /\ current_time = uhist[2].current_time
    /\ (lastOp = "Tick" /\ ticked = "first" /\ PauseThenPlay
            /\ outcome \in {"advanced", "fault", "empty"}) =>
          chunk = <<uhist[2].current_time, uhist[2].current_time + TimeStep>>

\* Paused at a time t > 0 and resumed, the first tick analysed [t, t + 2).
C5_Witness ==
    /\ lastOp = "Tick"
    /\ ticked = "first"
    /\ PauseThenPlay
    /\ outcome = "advanced"
    /\ uhist[2].current_time > 0
    /\ chunk[1] = uhist[2].current_time

\* C6: Pause() called when the state is not Playing changes nothing, so a
\* Play() that follows a Pause() called while Stopped does not resume: if it
\* starts anything, it starts the music from time 0.
C6_PauseNoOpUnlessPlaying ==
    /\ (lastOp = "Pause" /\ ~Playing(pre)) => Snap = pre
    /\ (lastOp = "Play" /\ Len(uhist) = 2 /\ uhist[2].op = "Pause"
            /\ Stopped(uhist[2]) /\ HasSession(pre)) =>
          /\ music_call # "unpause"
          /\ timer_active => StartedFromZero

\* C7: Pause() is idempotent: pausing the state a Pause() returns gives that
\* state again, and a Pause() that follows a Pause() changes nothing.
C7_PauseIdempotent ==
    /\ LET once == pause_audio_and_plot(Cur)
       IN  pause_audio_and_plot(once) = once
    /\ (lastOp = "Pause" /\ Len(uhist) = 2 /\ uhist[2].op = "Pause") =>
          Snap = pre

\* Pause() pressed twice in a row, the first time while Playing.
C7_Witness ==
    /\ lastOp = "Pause"
    /\ Len(uhist) = 2
    /\ uhist[2].op = "Pause"
    /\ Playing(uhist[2])
    /\ uhist[2].current_time > 0
    /\ is_paused
    /\ ~timer_active

C9_LoadReplacesResetsClears ==
    (lastOp = "Load" /\ outcome = "ok") =>
        /\ snd = audio_path
        /\ snd # None
        /\ current_time = 0
        /\ figure = <<>>
        /\ canvas = <<>>

\* C10: once the user leaves the program alone, a running timer eventually
\* halts; and whenever the timer is halted, current_time is time_step times
\* the number of successful ticks since the time was last set to 0.0.
C10_TimerEventuallyHalts ==
    /\ timer_active ~> ~timer_active
    /\ [](~timer_active => current_time = TimeStep * nticks)

\* Play() from the start, no user operation after it: the timer was halted
\* by a tick after two successful ticks.
C10_Witness ==
    /\ lastOp = "Tick"
    /\ ~timer_active
    /\ pre.timer_active
    /\ uhist[1].op = "Play"
    /\ ~uhist[1].is_paused
    /\ nticks = 2
    /\ current_time = 2 * TimeStep

\* C11: a successful tick adds exactly time_step to current_time and the
\* window it analysed is [t, t + time_step) for the current_time t it started
\* with; a tick that ends any other way leaves current_time as it was.
C11_TickAdvancesByTimeStep ==
    lastOp = "Tick" =>
        /\ outcome = "advanced" =>
              /\ current_time = pre.current_time + TimeStep
              /\ chunk = <<pre.current_time, pre.current_time + TimeStep>>
              /\ pre.music_state = "playing"
        /\ outcome # "advanced" => current_time = pre.current_time

\* A successful tick that started at a time t > 0.
C11_Witness ==
    /\ lastOp = "Tick"
    /\ outcome = "advanced"
    /\ pre.current_time = TimeStep
    /\ current_time = 2 * TimeStep

C13_EndOfAudioOnlyStopsTimer ==
    (lastOp = "Tick" /\ outcome = "not_busy") =>
        Snap = [pre EXCEPT !.timer_active = FALSE, !.timer_rem = 0]

\* The audio ended after ticks advanced the time and drew the panes.
C13_Witness ==
    /\ lastOp = "Tick"
    /\ outcome = "not_busy"
    /\ ~timer_active
    /\ current_time > 0
    /\ canvas = <<311, 312, 313>>

\* C14: a tick whose extracted chunk has no duration stops the timer, does
\* not advance current_time, leaves the figure and the canvas as they were
\* and only prints a message.
C14_EmptyWindowStopsTimer ==
    (lastOp = "Tick" /\ outcome = "empty") =>
        /\ printed = "Audio chunk is empty or invalid"
        /\ Snap = [pre EXCEPT !.timer_active = FALSE, !.timer_rem = 0]
        /\ extract_part(snd, chunk[1], chunk[2]) <= 0

\* The window of a tick started at or after the end of the signal, while the
\* music was still playing.
C14_Witness ==
    /\ lastOp = "Tick"
    /\ outcome = "empty"
    /\ pre.music_state = "playing"
    /\ current_time >= get_total_duration(snd)
    /\ ~timer_active

\* C15: whenever the timer is running, a Session is loaded and the paused
\* flag is false; a tick never runs without a signal nor while paused.
C15_TimerOnlyWhilePlaying ==
    /\ timer_active => (HasSession(Snap) /\ ~is_paused)
    /\ lastOp = "Tick" => (HasSession(pre) /\ ~pre.is_paused)

\* A tick ran, in the Playing state, and left the timer running.
C15_Witness ==
    /\ lastOp = "Tick"
    /\ outcome = "advanced"
    /\ timer_active
    /\ HasSession(Snap)
    /\ ~is_paused

\* C16: the Play() that follows a successful Load() plays the newly loaded
\* file from its beginning (play, not unpause), with current_time = 0 and the
\* timer running, whatever the state the Load() was called in.  Stated for
\* the files the audio engine accepts.
C16_PlayAfterLoadStartsNewFile ==
    (lastOp = "Play" /\ Len(uhist) = 2 /\ uhist[2].op = "Load"
        /\ uhist[2].outcome = "ok" /\ MusicLoadOk(pre.audio_path)) =>
        /\ StartedFromZero
        /\ music = audio_path
        /\ ~is_paused

\* C17: a Load() whose dialog is cancelled changes nothing: Session, path,
\* current_time, paused flag, timer, audio output, figure and canvas are as
\* they were, and nothing is printed.
C17_CancelledLoadChangesNothing ==
    (lastOp = "Load" /\ outcome = "cancelled") =>
        /\ Snap = pre
        /\ printed = ""
        /\ music_call = "none"

\* The dialog was cancelled while playing, after a tick advanced the time.
C17_Witness ==
    /\ lastOp = "Load"
    /\ outcome = "cancelled"
    /\ Playing(pre)
    /\ pre.current_time > 0
    /\ pre.canvas # <<>>
    /\ timer_active

\* The frames of the track whose value is defined.
Defined == {i \in 1..Len(track) : track[i] # NaN}

\* C18: the points plot_intensity plots are exactly the samples whose value
\* is not NaN, each with its own time and in the order of the track; with no
\* such sample the pane has no point and the title says so.
C18_IntensityPlotsDefinedSamples ==
    lastOp = "plot_intensity" =>
        /\ Len(pane.xs) = Cardinality(Defined)
        /\ Len(pane.ys) = Cardinality(Defined)
        /\ \A i \in Defined :
              \E k \in 1..Len(pane.xs) : pane.xs[k] = i /\ pane.ys[k] = track[i]
        /\ \A k, l \in 1..Len(pane.xs) : k < l => pane.xs[k] < pane.xs[l]
        /\ pane.title = IF Defined = {} THEN "Intensity Analysis (No valid data)"
                        ELSE "Intensity Analysis"

\* A track with an undefined sample between two defined ones was plotted.
C18_Witness ==
    /\ lastOp = "plot_intensity"
    /\ Len(track) = 3
    /\ track[1] # NaN
    /\ track[2] = NaN
    /\ track[3] # NaN
    /\ pane.xs = <<1, 3>>
    /\ pane.ys = <<track[1], track[3]>>

\* The frames of the track that are voiced.
Voiced == {i \in 1..Len(track) : track[i] # Unvoiced}

\* C19: the sequence plot_pitch plots holds exactly the voiced frames; an
\* unvoiced frame is not in it.
C19_PitchPlotsVoicedFramesOnly ==
    lastOp = "plot_pitch" =>
        /\ Len(pane.ys) = Cardinality(Voiced)
        /\ \A k \in 1..Len(pane.ys) : pane.ys[k] # Unvoiced
        /\ \A i \in Voiced :
              \E k \in 1..Len(pane.xs) : pane.xs[k] = i /\ pane.ys[k] = track[i]

====
